---- MODULE Spec2Model ----
(***************************************************************************)
(* Partial evaluation in polar-core: the constraint accumulator            *)
(* (partial/constraints.rs, Constraints), the resumable type-compatibility *)
(* check (IsaConstraintCheck) and the simplifier (partial/simplify.rs).    *)
(***************************************************************************)
EXTENDS Integers, Sequences, FiniteSets, TLC

-----------------------------------------------------------------------------
(* Bounds of the model *)

\* most calls made on the accumulators of a query, all branches together
MaxCalls == 4
\* most run() calls made on one check
MaxSteps == 3
\* largest call id the shared counter hands out
MaxCallId == 2
\* most passes of the simplifier's fixed-point loop that are unrolled
MaxPasses == 4

-----------------------------------------------------------------------------
(* Terms: Value variants of terms.rs as used by the partial module *)

Variable(s) == [value |-> "Variable", sym |-> s]
Number(n) == [value |-> "Number", num |-> n]
String(s) == [value |-> "String", str |-> s]
\* Value::Pattern(Pattern::Instance(instance)), fields empty
Instance(tag) == [value |-> "Pattern", pattern |-> "Instance", tag |-> tag]
\* Value::Pattern(Pattern::Dictionary(..)), a pattern that is no instance pattern
Dictionary == [value |-> "Pattern", pattern |-> "Dictionary", tag |-> "{}"]
Operation(operator, args) == [operator |-> operator, args |-> args]
Expression(o) == [value |-> "Expression", op |-> o]
Partial(c) == [value |-> "Partial", constraints |-> c]

\* Option<T>
None == [some |-> FALSE]
Some(x) == [some |-> TRUE, val |-> x]

\* the operators compare() accepts
ComparisonOperators == {"Lt", "Gt", "Leq", "Geq", "Eq", "Neq"}

\* the receiver every recorded operation refers to
variable_term == Variable("_this")

\* Symbol::is_temporary_var: names minted by the evaluator start with "_"
Temporaries == {"_value_1", "_value_2", "_value_3"}
Root == "a"
\* another variable of the query; no rule of the model constrains it
Others == {"n"}
Symbols == {Root} \cup Others \cup Temporaries
is_temporary_var(s) == s \in Temporaries

-----------------------------------------------------------------------------
(* Constraints: the accumulator *)

Constraints_new(variable) == [operations |-> <<>>, variable |-> variable]

\* faulty variant: the operation is pushed in front of the list
Constraints_unify_front(c, other) ==
    [c EXCEPT !.operations = <<Operation("Unify", <<variable_term, other>>)>> \o @]

Constraints_unify(c, other) ==
    [c EXCEPT !.operations = Append(@, Operation("Unify", <<variable_term, other>>))]

Constraints_compare(c, operator, other) ==
    [c EXCEPT !.operations = Append(@, Operation(operator, <<variable_term, other>>))]

\* the proposed operation's right operand decides the tag
IsaConstraintCheck_new(existing, proposed) ==
    LET right == proposed.args[Len(proposed.args)]
    IN [existing |-> existing,
        proposed_tag |-> IF right.value = "Pattern" /\ right.pattern = "Instance"
                         THEN Some(right.tag) ELSE None,
        result |-> None,
        last_call_id |-> 0]

\* faulty variant: the check is built after the push and sees the proposed operation
Constraints_isa_after(c, other) ==
    LET isa_op == Operation("Isa", <<variable_term, other>>)
    IN [constraints |-> [c EXCEPT !.operations = Append(@, isa_op)],
        check |-> IsaConstraintCheck_new(Append(c.operations, isa_op), isa_op)]

\* isa: the check is built from the operations before the push
Constraints_isa(c, other) ==
    LET isa_op == Operation("Isa", <<variable_term, other>>)
    IN [constraints |-> [c EXCEPT !.operations = Append(@, isa_op)],
        check |-> IsaConstraintCheck_new(c.operations, isa_op)]

\* faulty variant: the partial returned is named by the parent's variable
Constraints_lookup_parent_name(c, field, value) ==
    [constraints |-> [c EXCEPT !.operations =
                        Append(@, Operation("Unify",
                            <<value, Expression(Operation("Dot", <<variable_term, field>>))>>))],
     term |-> Partial(Constraints_new(c.variable))]

\* faulty variant: the Dot is built over the placeholder, not over the receiver
Constraints_lookup_value_base(c, field, value) ==
    [constraints |-> [c EXCEPT !.operations =
                        Append(@, Operation("Unify",
                            <<value, Expression(Operation("Dot", <<value, field>>))>>))],
     term |-> Partial(Constraints_new(value.sym))]

\* lookup: the parent gets Unify(value, Dot(_this, field)); the result is a
\* fresh, empty partial named by value's symbol
Constraints_lookup(c, field, value) ==
    [constraints |-> [c EXCEPT !.operations =
                        Append(@, Operation("Unify",
                            <<value, Expression(Operation("Dot", <<variable_term, field>>))>>))],
     term |-> Partial(Constraints_new(value.sym))]

Constraints_into_expression(c) ==
    Expression(Operation("And",
        [i \in 1..Len(c.operations) |-> Expression(c.operations[i])]))

-----------------------------------------------------------------------------
(* IsaConstraintCheck: the resumable type-compatibility check *)

\* events a step returns
Done(result) == [event |-> "Done", result |-> result]
ExternalIsSubclass(call_id, left, right) ==
    [event |-> "ExternalIsSubclass", call_id |-> call_id,
     left_class_tag |-> left, right_class_tag |-> right]
NoEvent == [event |-> "None"]

\* Counter::next of the shared call-id source: hands out the current value
Counter_next(counter) == [call_id |-> counter, counter |-> counter + 1]

\* faulty variant: every prior Isa asks, whatever its right operand
check_constraint_any_isa(self, constraint, counter) ==
    IF constraint.operator # "Isa"
    THEN [self |-> self, event |-> None, counter |-> counter]
    ELSE LET right == constraint.args[Len(constraint.args)]
             n == Counter_next(counter)
         IN [self |-> [self EXCEPT !.last_call_id = n.call_id],
             event |-> Some(ExternalIsSubclass(n.call_id, self.proposed_tag.val, right.tag)),
             counter |-> n.counter]

\* faulty variant: the two class tags of the request are swapped
check_constraint_swapped(self, constraint, counter) ==
    IF constraint.operator # "Isa"
    THEN [self |-> self, event |-> None, counter |-> counter]
    ELSE LET right == constraint.args[Len(constraint.args)]
         IN IF right.value = "Pattern" /\ right.pattern = "Instance"
            THEN LET n == Counter_next(counter)
                 IN [self |-> [self EXCEPT !.last_call_id = n.call_id],
                     event |-> Some(ExternalIsSubclass(n.call_id,
                                        right.tag, self.proposed_tag.val)),
                     counter |-> n.counter]
            ELSE [self |-> self, event |-> None, counter |-> counter]

\* faulty variant: the id of the request is not recorded in the check
check_constraint_no_record(self, constraint, counter) ==
    IF constraint.operator # "Isa"
    THEN [self |-> self, event |-> None, counter |-> counter]
    ELSE LET right == constraint.args[Len(constraint.args)]
         IN IF right.value = "Pattern" /\ right.pattern = "Instance"
            THEN LET n == Counter_next(counter)
                 IN [self |-> self,
                     event |-> Some(ExternalIsSubclass(n.call_id,
                                        self.proposed_tag.val, right.tag)),
                     counter |-> n.counter]
            ELSE [self |-> self, event |-> None, counter |-> counter]

\* check_constraint: only an Isa whose right operand is an instance pattern asks
check_constraint(self, constraint, counter) ==
    IF constraint.operator # "Isa"
    THEN [self |-> self, event |-> None, counter |-> counter]
    ELSE LET right == constraint.args[Len(constraint.args)]
         IN IF right.value = "Pattern" /\ right.pattern = "Instance"
            THEN LET n == Counter_next(counter)
                 IN [self |-> [self EXCEPT !.last_call_id = n.call_id],
                     event |-> Some(ExternalIsSubclass(n.call_id,
                                        self.proposed_tag.val, right.tag)),
                     counter |-> n.counter]
            ELSE [self |-> self, event |-> None, counter |-> counter]

\* faulty variant: the prior operations are taken from the front of the list
RECURSIVE run_loop_front(_, _)
run_loop_front(self, counter) ==
    IF self.existing = <<>>
    THEN [self |-> self, event |-> Done(TRUE), counter |-> counter]
    ELSE LET constraint == self.existing[1]
             popped == [self EXCEPT !.existing = Tail(@)]
             r == check_constraint(popped, constraint, counter)
         IN IF r.event.some
            THEN [self |-> r.self, event |-> r.event.val, counter |-> r.counter]
            ELSE run_loop_front(r.self, r.counter)

\* faulty variant: the last prior operation is looked at and left in the list
RECURSIVE run_loop_peek(_, _)
run_loop_peek(self, counter) ==
    IF self.existing = <<>>
    THEN [self |-> self, event |-> Done(TRUE), counter |-> counter]
    ELSE LET constraint == self.existing[Len(self.existing)]
             popped == [self EXCEPT !.existing = SubSeq(@, 1, Len(@) - 1)]
             r == check_constraint(self, constraint, counter)
         IN IF r.event.some
            THEN [self |-> r.self, event |-> r.event.val, counter |-> r.counter]
            ELSE run_loop_peek(popped, r.counter)

\* the loop of run(): pop from the back until a constraint asks or none is left
RECURSIVE run_loop(_, _)
run_loop(self, counter) ==
    IF self.existing = <<>>
    THEN [self |-> self, event |-> Done(TRUE), counter |-> counter]
    ELSE LET constraint == self.existing[Len(self.existing)]
             popped == [self EXCEPT !.existing = SubSeq(@, 1, Len(@) - 1)]
             r == check_constraint(popped, constraint, counter)
         IN IF r.event.some
            THEN [self |-> r.self, event |-> r.event.val, counter |-> r.counter]
            ELSE run_loop(r.self, r.counter)

\* faulty variant: a negative answer does not end the check
IsaConstraintCheck_run_no_short_circuit(self, counter) ==
    IF ~self.proposed_tag.some
    THEN [self |-> self, event |-> Done(TRUE), counter |-> counter]
    ELSE run_loop([self EXCEPT !.result = None], counter)

\* faulty variant: any pending answer ends the check with that answer
IsaConstraintCheck_run_done_on_answer(self, counter) ==
    IF ~self.proposed_tag.some
    THEN [self |-> self, event |-> Done(TRUE), counter |-> counter]
    ELSE LET taken == [self EXCEPT !.result = None]
         IN IF self.result.some
            THEN [self |-> taken, event |-> Done(self.result.val), counter |-> counter]
            ELSE run_loop(taken, counter)

\* run(): one step of the check
IsaConstraintCheck_run(self, counter) ==
    IF ~self.proposed_tag.some
    THEN [self |-> self, event |-> Done(TRUE), counter |-> counter]
    ELSE LET taken == [self EXCEPT !.result = None]
         IN IF self.result.some /\ ~self.result.val
            THEN [self |-> taken, event |-> Done(FALSE), counter |-> counter]
            ELSE run_loop(taken, counter)

\* faulty variant: the answer is kept whatever the call id
external_question_result_any_id(self, call_id, answer) ==
    [self |-> [self EXCEPT !.result = Some(answer)], ret |-> "Ok"]

\* external_question_result(): the answer is kept only for the last call id
external_question_result(self, call_id, answer) ==
    IF call_id # self.last_call_id
    THEN [self |-> self, ret |-> "InvalidState"]
    ELSE [self |-> [self EXCEPT !.result = Some(answer)], ret |-> "Ok"]

\* IsaConstraintCheck: derive(Clone), a copy of the whole check
IsaConstraintCheck_clone(self) == self

\* faulty variant: the box of the original is handed out again
clone_runnable_shared(old, new) == old

\* clone_runnable(): the copy lives in a box of its own
clone_runnable(old, new) == new

-----------------------------------------------------------------------------
(* Simplifier: the Folder of simplify.rs *)

\* an assertion of the simplifier failed: the process aborts
PanicTerm == [value |-> "Panic"]

IsDot(term) == term.value = "Expression" /\ term.op.operator = "Dot"

\* is_this_arg: "true", "false", or "panic" when the assertion on a Dot fails
is_this_arg(term) ==
    IF IsDot(term)
    THEN IF term.op.args[1] = Variable("_this") THEN "true" ELSE "panic"
    ELSE IF term = Variable("_this") THEN "true" ELSE "false"

\* faulty variant: the receiver is never replaced
sub_this_keep(term, replacement) == term

\* sub_this: a Dot operand keeps its field when the replacement is a Dot
sub_this(term, replacement) ==
    IF IsDot(term) /\ IsDot(replacement)
    THEN Expression(Operation("Dot", <<replacement, term.op.args[2]>>))
    ELSE LET this == is_this_arg(term)
         IN IF this = "panic" THEN PanicTerm
            ELSE IF this = "true" THEN replacement ELSE term

\* one operation of a partial with the receiver substituted in its operands
sub_op(o, replacement) ==
    Operation(o.operator, [i \in 1..Len(o.args) |-> sub_this(o.args[i], replacement)])

RECURSIVE fold_term(_)
RECURSIVE fold_operation(_)
RECURSIVE Simplifier_fold_operation(_)
RECURSIVE map_ops(_, _)

\* Folder::fold_term as the Simplifier inherits it: expressions and the
\* operations of a partial go through the Simplifier's fold_operation
fold_term(term) ==
    IF term.value = "Expression"
    THEN Expression(Simplifier_fold_operation(term.op))
    ELSE IF term.value = "Partial"
    THEN Partial([term.constraints EXCEPT !.operations =
            [i \in 1..Len(@) |-> Simplifier_fold_operation(@[i])]])
    ELSE term

\* folder::fold_operation, the default: the operator kept, the operands folded
fold_operation(o) ==
    Operation(o.operator, [i \in 1..Len(o.args) |-> fold_term(o.args[i])])

\* map_ops: substitute in every operation of the partial, then fold it
map_ops(ops, replacement) ==
    [i \in 1..Len(ops) |-> Expression(fold_operation(sub_op(ops[i], replacement)))]

\* faulty variant: a Unify the rule does not match is wrapped in an And as well
Simplifier_fold_operation_wrap(o) ==
    IF o.operator = "Unify"
    THEN LET left == o.args[1]
             right == o.args[2]
         IN IF left.value = "Partial" /\ right.value = "Expression"
            THEN Operation("And", map_ops(left.constraints.operations, right))
            ELSE IF left.value = "Expression" /\ right.value = "Partial"
            THEN Operation("And", map_ops(right.constraints.operations, left))
            ELSE Operation("And", <<Expression(fold_operation(o))>>)
    ELSE fold_operation(o)

\* Simplifier::fold_operation: a Unify of a partial with an expression becomes
\* the And of the partial's operations over that expression
Simplifier_fold_operation(o) ==
    IF o.operator = "Unify"
    THEN LET left == o.args[1]
             right == o.args[2]
         IN IF left.value = "Partial" /\ right.value = "Expression"
            THEN Operation("And", map_ops(left.constraints.operations, right))
            ELSE IF left.value = "Expression" /\ right.value = "Partial"
            THEN Operation("And", map_ops(right.constraints.operations, left))
            ELSE fold_operation(o)
    ELSE fold_operation(o)

\* simplify_partial: fold until a pass changes nothing; passes counts the folds.
\* fixed is FALSE when MaxPasses folds did not reach the fixed point.
RECURSIVE simplify_loop(_, _)
simplify_loop(term, n) ==
    LET new == fold_term(term)
    IN IF new = term THEN [term |-> new, passes |-> n + 1, fixed |-> TRUE]
       ELSE IF n + 1 >= MaxPasses THEN [term |-> new, passes |-> n + 1, fixed |-> FALSE]
       ELSE simplify_loop(new, n + 1)

simplify_partial(term) == simplify_loop(term, 0).term

\* Bindings: the bound symbols and the term of each (NoTerm where unbound)
NoTerm == [value |-> "Unbound"]
Bindings(bound, val) ==
    [bound |-> bound, val |-> [s \in Symbols |-> IF s \in bound THEN val[s] ELSE NoTerm]]

get_roots(bindings) ==
    {s \in bindings.bound : ~is_temporary_var(s) /\ bindings.val[s].value = "Partial"}

\* faulty variant: the new bindings are built and never written back
to_expressions_dropped(bindings) == bindings

to_expressions(bindings) ==
    [bindings EXCEPT !.val = [s \in Symbols |->
        IF s \in bindings.bound /\ bindings.val[s].value = "Partial"
        THEN Constraints_into_expression(bindings.val[s].constraints)
        ELSE bindings.val[s]]]

\* faulty variant: one temporary is removed in a call, not all of them
remove_temporaries_one(bindings) ==
    LET temps == {s \in bindings.bound : is_temporary_var(s)}
    IN IF temps = {} THEN bindings
       ELSE Bindings(bindings.bound \ {CHOOSE s \in temps : TRUE}, bindings.val)

remove_temporaries(bindings) ==
    Bindings({s \in bindings.bound : ~is_temporary_var(s)}, bindings.val)

simplify_bindings(bindings) ==
    LET roots == get_roots(bindings)
        simplified == [bindings EXCEPT !.val = [s \in Symbols |->
            IF s \in roots THEN simplify_partial(bindings.val[s]) ELSE bindings.val[s]]]
    IN remove_temporaries(to_expressions(simplified))

\* whether an assertion failed somewhere in the term
RECURSIVE HasPanic(_)
HasPanic(term) ==
    IF term.value = "Panic" THEN TRUE
    ELSE IF term.value = "Expression"
    THEN \E i \in 1..Len(term.op.args) : HasPanic(term.op.args[i])
    ELSE IF term.value = "Partial"
    THEN \E i \in 1..Len(term.constraints.operations) :
            HasPanic(Expression(term.constraints.operations[i]))
    ELSE FALSE

-----------------------------------------------------------------------------
(* The evaluator's state around the partial module *)

\* evaluation branches: branch 2 starts when branch 1 forks at a disjunction
Branches == {1, 2}
\* the checks the driver holds
CheckIds == {1, 2}

VARIABLES
    store,     \* store[h]: a binding set, [bound, acc]; acc[s] is the accumulator bound to s
    ref,       \* ref[b]: the binding set branch b reads and writes
    calls,     \* calls[b][s]: the calls branch b made on the accumulator of s, in order
    forked,    \* whether branch 1 has forked
    prefix,    \* prefix[s]: the operations of s when the branches forked
    last,      \* the last call made and what it returned
    aborted,   \* an assertion failed: the process is gone
    out,       \* out[b]: what simplify_bindings returned for branch b
    checks,    \* checks[c]: the IsaConstraintCheck in slot c
    held,      \* held[c]: the check the box in slot c holds
    obs,       \* obs[c]: what the driver saw of the check in slot c
    counter    \* the shared call-id counter

vars == <<store, ref, calls, forked, prefix, last, aborted, out, checks, held, obs, counter>>
accVars == <<store, ref, calls, forked, prefix, out>>
checkVars == <<checks, held, obs, counter>>

NoOut == [done |-> FALSE, bindings |-> Bindings({}, [s \in Symbols |-> NoTerm])]
NoCheck == IsaConstraintCheck_new(<<>>, Operation("Isa", <<variable_term, Number(0)>>))
NoObs == [live |-> FALSE, pre |-> <<>>, at |-> 0, operand |-> Number(0),
          event |-> NoEvent, steps |-> 0, doneAt |-> 0,
          requests |-> <<>>, answers |-> <<>>, answered |-> FALSE, proper |-> TRUE]

EmptyStore == [bound |-> {}, acc |-> [s \in Symbols |-> Constraints_new(s)]]

\* the binding set of branch b and the accumulator bound to s in it
Bound(b) == store[ref[b]].bound
Acc(b, s) == store[ref[b]].acc[s]
Started(b) == Bound(b) # {}

\* a query over one partial: the root symbol is bound to an empty accumulator
Init ==
    /\ store = [h \in Branches |->
                  IF h = 1 THEN [EmptyStore EXCEPT !.bound = {Root}] ELSE EmptyStore]
    /\ ref = [b \in Branches |-> b]
    /\ calls = [b \in Branches |-> [s \in Symbols |-> <<>>]]
    /\ forked = FALSE
    /\ prefix = [s \in Symbols |-> <<>>]
    /\ last = [call |-> "new"]
    /\ aborted = FALSE
    /\ out = [b \in Branches |-> NoOut]
    /\ checks = [c \in CheckIds |-> NoCheck]
    /\ held = [c \in CheckIds |-> c]
    /\ obs = [c \in CheckIds |-> NoObs]
    /\ counter = 1

\* the number of calls logged so far
RECURSIVE CallsIn(_, _)
CallsIn(log, syms) ==
    IF syms = {} THEN 0
    ELSE LET s == CHOOSE x \in syms : TRUE
         IN Len(log[s]) + CallsIn(log, syms \ {s})
TotalCalls == CallsIn(calls[1], Symbols) + CallsIn(calls[2], Symbols)

\* branch b may call into the accumulator bound to s
CanCall(b, s) ==
    /\ ~aborted
    /\ s \in Bound(b)
    /\ ~out[b].done
    /\ TotalCalls < MaxCalls

\* the accumulator of s in branch b is replaced, the call is logged
Record(b, s, c, call) ==
    /\ store' = [store EXCEPT ![ref[b]].acc[s] = c]
    /\ calls' = [calls EXCEPT ![b][s] = Append(@, call)]

Unify(b, s, other) ==
    /\ CanCall(b, s)
    /\ Record(b, s, Constraints_unify(Acc(b, s), other), [call |-> "unify", other |-> other])
    /\ last' = [call |-> "unify"]
    /\ UNCHANGED <<ref, forked, prefix, aborted, out, checkVars>>

\* faulty variant: the operation is pushed first and the operator asserted after
Compare_push_first(b, s, operator, other) ==
    /\ CanCall(b, s)
    /\ Record(b, s, Constraints_compare(Acc(b, s), operator, other),
              [call |-> "compare", operator |-> operator, other |-> other])
    /\ IF operator \in ComparisonOperators
       THEN /\ last' = [call |-> "compare", operator |-> operator]
            /\ UNCHANGED aborted
       ELSE /\ aborted' = TRUE
            /\ last' = [call |-> "compare", operator |-> operator, panic |-> TRUE]
    /\ UNCHANGED <<ref, forked, prefix, out, checkVars>>

\* compare asserts the operator before it records anything
Compare(b, s, operator, other) ==
    /\ CanCall(b, s)
    /\ IF operator \in ComparisonOperators
       THEN /\ Record(b, s, Constraints_compare(Acc(b, s), operator, other),
                      [call |-> "compare", operator |-> operator, other |-> other])
            /\ last' = [call |-> "compare", operator |-> operator]
            /\ UNCHANGED aborted
       ELSE /\ aborted' = TRUE
            /\ last' = [call |-> "compare", operator |-> operator, panic |-> TRUE]
            /\ UNCHANGED <<store, calls>>
    /\ UNCHANGED <<ref, forked, prefix, out, checkVars>>

\* what isa does to the accumulator, and the check it returns
IsaCall(b, s, other) ==
    LET r == Constraints_isa(Acc(b, s), other)
    IN /\ CanCall(b, s)
       /\ Record(b, s, r.constraints, [call |-> "isa", other |-> other])
       /\ last' = [call |-> "isa", ret |-> r.check]
       /\ UNCHANGED <<ref, forked, prefix, aborted, out>>

\* isa whose returned check the driver does not keep
Isa(b, s, other) ==
    /\ IsaCall(b, s, other)
    /\ UNCHANGED checkVars

\* the placeholder of the next lookup: the first temporary not yet bound
Fresh(b) ==
    IF "_value_1" \notin Bound(b) THEN "_value_1"
    ELSE IF "_value_2" \notin Bound(b) THEN "_value_2" ELSE "_value_3"

\* lookup asserts the field is a string; the evaluator binds the placeholder
\* to the partial lookup returns
Lookup(b, s, field) ==
    /\ CanCall(b, s)
    /\ Temporaries \ Bound(b) # {}
    /\ IF field.value = "String"
       THEN LET value == Variable(Fresh(b))
                r == Constraints_lookup(Acc(b, s), field, value)
            IN /\ store' = [store EXCEPT ![ref[b]] =
                              [bound |-> @.bound \cup {value.sym},
                               acc |-> [@.acc EXCEPT ![s] = r.constraints,
                                                     ![value.sym] = r.term.constraints]]]
               /\ calls' = [calls EXCEPT ![b][s] =
                              Append(@, [call |-> "lookup", field |-> field, value |-> value])]
               /\ last' = [call |-> "lookup", field |-> field, ret |-> r.term]
               /\ UNCHANGED aborted
       ELSE /\ aborted' = TRUE
            /\ last' = [call |-> "lookup", field |-> field, panic |-> TRUE]
            /\ UNCHANGED <<store, calls>>
    /\ UNCHANGED <<ref, forked, prefix, out, checkVars>>

\* the accumulators are cloned when evaluation branches: the copy is a binding
\* set of its own
Constraints_clone(c) == c
\* faulty variant: the copy shares the binding set of the original
CloneTarget_shared(new, old) == old

CloneTarget(new, old) == new

Fork ==
    /\ ~aborted
    /\ ~forked
    /\ ~out[1].done
    /\ store' = [store EXCEPT ![2] =
                   [bound |-> Bound(1),
                    acc |-> [s \in Symbols |-> Constraints_clone(Acc(1, s))]]]
    /\ ref' = [ref EXCEPT ![2] = CloneTarget(2, ref[1])]
    /\ calls' = [calls EXCEPT ![2] = calls[1]]
    /\ prefix' = [s \in Symbols |-> Acc(1, s).operations]
    /\ forked' = TRUE
    /\ last' = [call |-> "clone"]
    /\ UNCHANGED <<aborted, out, checkVars>>

\* the evaluator hands the simplifier its bindings with every bound variable
\* replaced by its value, inside partials too
RECURSIVE deep_deref(_, _)
deep_deref(term, st) ==
    IF term.value = "Variable"
    THEN IF term.sym \in st.bound
         THEN deep_deref(Partial(st.acc[term.sym]), st) ELSE term
    ELSE IF term.value = "Expression"
    THEN Expression(Operation(term.op.operator,
            [i \in 1..Len(term.op.args) |-> deep_deref(term.op.args[i], st)]))
    ELSE IF term.value = "Partial"
    THEN Partial([term.constraints EXCEPT !.operations =
            [i \in 1..Len(@) |-> Operation(@[i].operator,
                [j \in 1..Len(@[i].args) |-> deep_deref(@[i].args[j], st)])]])
    ELSE term

\* the bindings of branch b as the simplifier receives them
ResultBindings(b) ==
    Bindings(Bound(b), [s \in Symbols |-> deep_deref(Partial(Acc(b, s)), store[ref[b]])])

\* the branch ends: its bindings are simplified and returned
Simplify(b) ==
    LET result == simplify_bindings(ResultBindings(b))
    IN /\ ~aborted
       /\ Started(b)
       /\ ~out[b].done
       /\ IF \E s \in result.bound : HasPanic(result.val[s])
          THEN aborted' = TRUE /\ UNCHANGED out
          ELSE out' = [out EXCEPT ![b] = [done |-> TRUE, bindings |-> result]]
               /\ UNCHANGED aborted
       /\ last' = [call |-> "simplify_bindings", branch |-> b,
                    loop |-> [s \in get_roots(ResultBindings(b)) |->
                                [x \in {"passes", "fixed"} |->
                                    simplify_loop(ResultBindings(b).val[s], 0)[x]]]]
       /\ UNCHANGED <<store, ref, calls, forked, prefix, checkVars>>

-----------------------------------------------------------------------------
(* The driver of the checks *)

IsRequest(e) == e.event = "ExternalIsSubclass"
IsDone(e) == e.event = "Done"

\* isa on the root accumulator; the driver keeps the returned check in slot c
IsaCheck(c, other) ==
    /\ IsaCall(1, Root, other)
    /\ checks' = [checks EXCEPT ![c] = Constraints_isa(Acc(1, Root), other).check]
    /\ held' = [held EXCEPT ![c] = c]
    /\ obs' = [obs EXCEPT ![c] = [NoObs EXCEPT !.live = TRUE,
                                               !.pre = Acc(1, Root).operations,
                                               !.at = Len(Acc(1, Root).operations) + 1,
                                               !.operand = other]]
    /\ UNCHANGED counter

\* the driver follows the protocol of the check: it steps a new check, answers
\* each request once, steps again, and leaves a completed check alone
ProperRun(o) == o.proper /\ IF IsRequest(o.event) THEN o.answered ELSE o.event = NoEvent
ProperResume(o) == o.proper /\ IsRequest(o.event) /\ ~o.answered

\* run() on the check in slot c, and what the driver sees of it
Step(c) ==
    LET r == IsaConstraintCheck_run(checks[held[c]], counter)
        o == obs[c]
    IN /\ ~aborted
       /\ o.live
       /\ checks' = [checks EXCEPT ![held[c]] = r.self]
       /\ counter' = r.counter
       /\ obs' = [obs EXCEPT ![c] =
            [o EXCEPT !.steps = @ + 1,
                      !.event = r.event,
                      !.doneAt = IF @ = 0 /\ IsDone(r.event) THEN o.steps + 1 ELSE @,
                      !.requests = IF IsRequest(r.event) THEN Append(@, r.event) ELSE @,
                      !.answered = FALSE,
                      !.answers = IF ProperRun(o) THEN @ ELSE <<>>,
                      !.proper = ProperRun(o)]]
       /\ last' = [call |-> "run", check |-> c, ret |-> r.event]
       /\ UNCHANGED <<accVars, aborted, held>>

\* the driver steps the check in slot c
Run(c) ==
    /\ obs[c].steps < MaxSteps
    /\ IsaConstraintCheck_run(checks[held[c]], counter).counter <= MaxCallId + 1
    /\ Step(c)

\* the driver passes an answer for call_id to the check in slot c; obs keeps
\* the answers for as long as the driver follows the protocol
Resume(c, call_id, answer) ==
    LET r == external_question_result(checks[held[c]], call_id, answer)
        o == obs[c]
    IN /\ ~aborted
       /\ o.live
       /\ checks' = [checks EXCEPT ![held[c]] = r.self]
       /\ obs' = [obs EXCEPT ![c] =
            IF r.ret = "Ok"
            THEN [o EXCEPT !.answers = IF ProperResume(o) THEN Append(@, answer) ELSE <<>>,
                           !.answered = TRUE,
                           !.proper = ProperResume(o)]
            ELSE o]
       /\ last' = IF r.ret = "Ok"
                  THEN [call |-> "resume", check |-> c, call_id |-> call_id,
                        answer |-> answer, ret |-> r.ret]
                  ELSE [call |-> "resume", check |-> c, call_id |-> call_id, ret |-> r.ret]
       /\ UNCHANGED <<accVars, aborted, held, counter>>

\* a branch forks: the check in slot c is cloned into the free slot d, with
\* what the driver saw of it so far
CloneCheck(c, d) ==
    /\ ~aborted
    /\ obs[c].live
    /\ ~obs[d].live
    /\ checks' = [checks EXCEPT ![d] = IsaConstraintCheck_clone(checks[held[c]])]
    /\ held' = [held EXCEPT ![d] = clone_runnable(held[c], d)]
    /\ obs' = [obs EXCEPT ![d] = obs[c]]
    /\ last' = [call |-> "clone_runnable", check |-> c]
    /\ UNCHANGED <<accVars, aborted, counter>>

-----------------------------------------------------------------------------
(* Specifications *)

\* what the rule bodies of the model pass to the accumulator
UnifyOperands == {Number(3)}
CompareInputs == {<<"Gt", Number(0)>>, <<"Unify", Number(0)>>}
IsaOperands == {Instance("Post")}
Fields == {String("a"), String("b"), Number(1)}

\* one branch: accumulation, lookup chains and simplification
Next ==
    \/ \E s \in Symbols, other \in UnifyOperands : Unify(1, s, other)
    \/ \E s \in Symbols, i \in CompareInputs : Compare(1, s, i[1], i[2])
    \/ \E s \in Symbols, other \in IsaOperands : Isa(1, s, other)
    \/ \E s \in Symbols, field \in Fields : Lookup(1, s, field)
    \/ Simplify(1)

Spec == Init /\ [][Next]_vars

\* what the alternatives of a disjunction pass to the accumulator
ForkOperands == {Number(3), Number(4)}
ForkFields == {String("a"), String("b")}

\* two branches of a disjunction over the same root
NextFork ==
    \/ Fork
    \/ \E b \in Branches, s \in Symbols, other \in ForkOperands : Unify(b, s, other)
    \/ \E b \in Branches, field \in ForkFields : Lookup(b, Root, field)
    \/ \E b \in Branches : Simplify(b)

SpecFork == Init /\ [][NextFork]_vars

\* what the rules pass to isa while checks are live
CheckOperands == {Instance("Post"), Instance("User"), Dictionary}

\* the call ids the driver answers with: the id 0 no request carries, the id of
\* the check's last request, and the id the next request will carry
ResumeIds(c) == {0, checks[c].last_call_id, counter}

\* one accumulator and the checks its isa calls return
NextCheck ==
    \/ Compare(1, Root, "Gt", Number(0))
    \/ \E other \in CheckOperands : IsaCheck(1, other)
    \/ Run(1)
    \/ \E call_id \in ResumeIds(1), answer \in BOOLEAN : Resume(1, call_id, answer)

SpecCheck == Init /\ [][NextCheck]_vars

\* a driver that follows the protocol: it runs a check to its completion before
\* the next isa call, steps a check that is new or whose request was answered,
\* and answers the outstanding request, once and with its call id
DriverIsa(c, other) ==
    /\ ~obs[c].live \/ IsDone(obs[c].event)
    /\ IsaCheck(c, other)

DriverStep(c) ==
    /\ ProperRun(obs[c])
    /\ obs[c].steps <= MaxCalls
    /\ counter <= MaxCalls * MaxCalls
    /\ Step(c)

DriverAnswer(c) ==
    /\ ProperResume(obs[c])
    /\ \E answer \in BOOLEAN : Resume(c, obs[c].event.call_id, answer)

NextDriver ==
    \/ Compare(1, Root, "Gt", Number(0))
    \/ \E other \in CheckOperands : DriverIsa(1, other)
    \/ DriverStep(1)
    \/ DriverAnswer(1)

\* every request is answered in the end and the check is then stepped again
SpecDriver ==
    /\ Init
    /\ [][NextDriver]_vars
    /\ WF_vars(DriverStep(1))
    /\ WF_vars(DriverAnswer(1))

\* what the rules pass to isa while two checks are live
MultiOperands == {Instance("Post")}

\* the check in slot c, and the call ids of the checks the driver holds
Check(c) == checks[held[c]]
HeldIds == {Check(c).last_call_id : c \in CheckIds}

\* two checks live at once: the second comes from a later isa call or from the
\* clone of the first when a branch forks; the driver steps them in any order
\* and may route an answer to either
NextMulti ==
    \/ \E other \in MultiOperands : ~obs[1].live /\ Isa(1, Root, other)
    \/ \E other \in MultiOperands : ~obs[1].live /\ IsaCheck(1, other)
    \/ \E other \in MultiOperands : obs[1].live /\ ~obs[2].live /\ IsaCheck(2, other)
    \/ CloneCheck(1, 2)
    \/ \E c \in CheckIds : Run(c)
    \/ \E c \in CheckIds, call_id \in HeldIds, answer \in BOOLEAN : Resume(c, call_id, answer)

SpecMulti == Init /\ [][NextMulti]_vars

\* binding sets handed to the simplifier: the root is unbound, bound to a
\* value, or bound to a partial of up to two operations, some of them the Unify
\* a lookup leaves once its placeholder is dereferenced to a nested partial
InnerPartial ==
    Partial([operations |-> <<Operation("Gt", <<Variable("_this"), Number(0)>>)>>,
             variable |-> "_value_1"])
DotA == Expression(Operation("Dot", <<Variable("_this"), String("a")>>))
InputOps ==
    {Operation("Gt", <<Variable("_this"), Number(0)>>),
     Operation("Isa", <<Variable("_this"), Instance("Post")>>),
     Operation("Unify", <<InnerPartial, DotA>>),
     Operation("Unify", <<DotA, InnerPartial>>)}
InputOpSeqs ==
    {<<>>} \cup {<<o>> : o \in InputOps} \cup {<<o, q>> : o \in InputOps, q \in InputOps}
PlainTerms ==
    {Number(1), Expression(Operation("Gt", <<Variable("_this"), Number(0)>>))}
InputTerms(s) ==
    IF s = Root
    THEN {NoTerm} \cup PlainTerms \cup
         {Partial([operations |-> ops, variable |-> s]) : ops \in InputOpSeqs}
    ELSE IF s = "_value_3"
    THEN {NoTerm, Number(1)}
    ELSE {NoTerm, Number(1),
          Partial([operations |-> <<Operation("Gt", <<Variable("_this"), Number(0)>>)>>,
                   variable |-> s])}
InputBindings ==
    {Bindings({s \in Symbols : val[s] # NoTerm}, val) :
        val \in [a : InputTerms("a"), n : InputTerms("n"),
                 _value_1 : InputTerms("_value_1"), _value_2 : InputTerms("_value_2"),
                 _value_3 : InputTerms("_value_3")]}

\* the expressions substituted for the receiver: a Dot, a Dot over a Dot, and
\* an expression that is no Dot
Replacements ==
    {Expression(Operation("Dot", <<Variable("_this"), String("b")>>)),
     Expression(Operation("Dot", <<DotA, String("b")>>)),
     Expression(Operation("Gt", <<Variable("_this"), Number(0)>>))}

\* the simplifier alone: the evaluator hands it a binding set
InitSimp ==
    /\ store = [h \in Branches |-> EmptyStore]
    /\ ref = [b \in Branches |-> b]
    /\ calls = [b \in Branches |-> [s \in Symbols |-> <<>>]]
    /\ forked = FALSE
    /\ prefix = [s \in Symbols |-> <<>>]
    /\ last \in {[call |-> "bindings", ret |-> b] : b \in InputBindings}
    /\ aborted = FALSE
    /\ out = [b \in Branches |-> NoOut]
    /\ checks = [c \in CheckIds |-> NoCheck]
    /\ held = [c \in CheckIds |-> c]
    /\ obs = [c \in CheckIds |-> NoObs]
    /\ counter = 1

\* simplify_bindings on the binding set at hand: the one the evaluator produced,
\* or the one the previous call returned
SimplifyBindings ==
    LET result == simplify_bindings(last.ret)
    IN /\ ~aborted
       /\ last.call \in {"bindings", "simplify_bindings"}
       /\ IF \E s \in result.bound : HasPanic(result.val[s])
          THEN aborted' = TRUE /\ UNCHANGED last
          ELSE /\ last' = [call |-> "simplify_bindings", arg |-> last.ret, ret |-> result]
               /\ UNCHANGED aborted
       /\ UNCHANGED <<accVars, checkVars>>

\* the rewrite of Unify(partial, replacement): map_ops over the operations of a
\* partial of the binding set
MapOps(s, replacement) ==
    /\ ~aborted
    /\ last.call = "bindings"
    /\ s \in get_roots(last.ret)
    /\ LET ops == last.ret.val[s].constraints.operations
           result == map_ops(ops, replacement)
       IN IF \E i \in 1..Len(result) : HasPanic(result[i])
          THEN aborted' = TRUE /\ UNCHANGED last
          ELSE /\ last' = [call |-> "map_ops", ops |-> ops,
                            replacement |-> replacement, ret |-> result]
               /\ UNCHANGED aborted
    /\ UNCHANGED <<accVars, checkVars>>

NextSimp ==
    \/ SimplifyBindings
    \/ \E s \in Symbols, replacement \in Replacements : MapOps(s, replacement)

SpecSimp == InitSimp /\ [][NextSimp]_vars

-----------------------------------------------------------------------------
(* Properties of the accumulator *)

\* the operation a logged call is to append
AppendedBy(call) ==
    IF call.call = "unify" THEN Operation("Unify", <<Variable("_this"), call.other>>)
    ELSE IF call.call = "compare"
    THEN Operation(call.operator, <<Variable("_this"), call.other>>)
    ELSE IF call.call = "isa" THEN Operation("Isa", <<Variable("_this"), call.other>>)
    ELSE Operation("Unify", <<call.value,
            Expression(Operation("Dot", <<Variable("_this"), call.field>>))>>)

OnlyAppends(log) == \A i \in 1..Len(log) : log[i].call \in {"unify", "compare", "isa"}

\* C1: after N calls to unify, compare and isa on an accumulator created empty,
\* into_expression() is an And of exactly N operands, and the i-th operand is
\* the expression of the operation the i-th call appends.
C1_AccumulationOrder ==
    \A b \in Branches : \A s \in Bound(b) :
        LET log == calls[b][s]
            e == Constraints_into_expression(Acc(b, s))
        IN OnlyAppends(log) =>
            /\ e.value = "Expression"
            /\ e.op.operator = "And"
            /\ Len(e.op.args) = Len(log)
            /\ \A i \in 1..Len(log) : e.op.args[i] = Expression(AppendedBy(log[i]))

\* three calls of three kinds were made on the root accumulator
C1_Witness ==
    /\ Len(calls[1][Root]) = 3
    /\ {calls[1][Root][i].call : i \in 1..3} = {"unify", "compare", "isa"}
    /\ Len(Constraints_into_expression(Acc(1, Root)).op.args) = 3

\* C8: lookup(field, v) with a string field and a variable v appends exactly
\* Unify(v, Dot(_this, field)) to the parent, keeps the parent's earlier
\* operations and its variable, and returns a partial named by v's symbol
\* whose operation list is empty.
C8_LookupAppends ==
    [][\A b \in Branches : \A s \in Symbols :
        (/\ last'.call = "lookup"
         /\ "ret" \in DOMAIN last'
         /\ Len(calls'[b][s]) = Len(calls[b][s]) + 1)
        => LET call == calls'[b][s][Len(calls'[b][s])]
           IN /\ call.field.value = "String"
              /\ call.value.value = "Variable"
              /\ Acc(b, s)'.operations =
                    Append(Acc(b, s).operations,
                           Operation("Unify", <<call.value,
                               Expression(Operation("Dot", <<Variable("_this"), call.field>>))>>))
              /\ Acc(b, s)'.variable = Acc(b, s).variable
              /\ last'.ret = Partial([operations |-> <<>>, variable |-> call.value.sym])
              /\ last'.ret.constraints.variable # Acc(b, s).variable
    ]_vars

\* a lookup on the second placeholder's parent returned, after earlier operations
C8_Witness ==
    /\ last.call = "lookup"
    /\ "ret" \in DOMAIN last
    /\ last.ret.constraints.variable = "_value_2"
    /\ \E s \in Bound(1) : /\ Len(Acc(1, s).operations) >= 2
                           /\ Acc(1, s).operations[Len(Acc(1, s).operations)].args[1]
                                = Variable("_value_2")

-----------------------------------------------------------------------------
(* Properties of the simplifier on lookup chains *)

\* whether a variable other than _this, or a partial, occurs in the term
RECURSIVE Leaks(_)
Leaks(term) ==
    IF term.value = "Variable" THEN term.sym # "_this"
    ELSE IF term.value = "Partial" THEN TRUE
    ELSE IF term.value = "Expression"
    THEN \E i \in 1..Len(term.op.args) : Leaks(term.op.args[i])
    ELSE FALSE

\* the root had one call, lookup(field, v1), and v1 had one call, a comparison;
\* nothing else was bound, and the branch was simplified
OneLookupCompared(b) ==
    /\ out[b].done
    /\ Len(calls[b][Root]) = 1
    /\ calls[b][Root][1].call = "lookup"
    /\ LET v == calls[b][Root][1].value.sym
       IN /\ Bound(b) = {Root, v}
          /\ Len(calls[b][v]) = 1
          /\ calls[b][v][1].call = "compare"

\* the comparison of the placeholder, over the field of the receiver
ComparedField(b) ==
    LET v == calls[b][Root][1].value.sym
        cmp == calls[b][v][1]
    IN Expression(Operation(cmp.operator,
          <<Expression(Operation("Dot", <<Variable("_this"), calls[b][Root][1].field>>)),
            cmp.other>>))

\* C9 as stated: the root's simplified expression equals the single comparison
\* Dot(_this, field) > 0.
C9_AsStated ==
    \A b \in Branches :
        OneLookupCompared(b) => out[b].bindings.val[Root] = ComparedField(b)

\* C9 as amended: the root's simplified expression is a conjunction whose only
\* operand is a conjunction whose only operand is the comparison
\* Dot(_this, field) > 0; neither the placeholder nor any other variable but
\* _this nor any partial occurs in it, and only the root stays bound.
C9_LookupRoundTrip ==
    \A b \in Branches :
        OneLookupCompared(b) =>
            /\ out[b].bindings.val[Root] =
                  Expression(Operation("And",
                      <<Expression(Operation("And", <<ComparedField(b)>>))>>))
            /\ ~Leaks(out[b].bindings.val[Root])
            /\ out[b].bindings.bound = {Root}

\* lookup("a", _value_1), then _value_1 > 0, then the branch was simplified
C9_Witness ==
    /\ OneLookupCompared(1)
    /\ calls[1][Root][1].field = String("a")
    /\ calls[1]["_value_1"][1] = [call |-> "compare", operator |-> "Gt", other |-> Number(0)]

\* the receiver is an operand of the operation, bare or as the base of a Dot
HasReceiver(o) ==
    \E i \in 1..Len(o.args) :
        \/ o.args[i] = Variable("_this")
        \/ IsDot(o.args[i]) /\ o.args[i].op.args[1] = Variable("_this")

\* C20: after any sequence of unify, compare, isa and lookup calls every
\* operation of every accumulator has the receiver _this as an operand, bare or
\* as the base of a Dot operand.
C20_ReceiverInvariant ==
    \A b \in Branches : \A s \in Symbols :
        \A i \in 1..Len(Acc(b, s).operations) : HasReceiver(Acc(b, s).operations[i])

\* an accumulator on which a lookup, an isa and a comparison were recorded
C20_Witness ==
    \E s \in Symbols :
        /\ Len(calls[1][s]) >= 3
        /\ \A k \in {"lookup", "isa", "compare"} :
              \E i \in 1..Len(calls[1][s]) : calls[1][s][i].call = k
        /\ Len(Acc(1, s).operations) = Len(calls[1][s])

\* C21: compare with an operator outside Lt, Gt, Leq, Geq, Eq, Neq and lookup
\* with a field that is no string abort before anything is appended: at the
\* failure every accumulator has the operation list it had before the call.
C21_FailFast ==
    [][(\/ last'.call = "compare" /\ last'.operator \notin ComparisonOperators
        \/ last'.call = "lookup" /\ last'.field.value # "String")
       => /\ aborted'
          /\ store' = store
          /\ calls' = calls
    ]_vars

\* compare was called with the operator Unify on an accumulator that had
\* recorded a lookup and a comparison, and aborted
C21_Witness ==
    /\ aborted
    /\ last.call = "compare"
    /\ last.operator = "Unify"
    /\ \E s \in Symbols :
          /\ Len(Acc(1, s).operations) = 2
          /\ Acc(1, s).operations[1].operator = "Unify"
          /\ Acc(1, s).operations[2].operator = "Gt"

-----------------------------------------------------------------------------
(* Properties of simplify_bindings and of the substitution *)

\* C11: the binding set simplify_bindings returns binds exactly the
\* non-temporary symbols of its input, none of them to a partial: a binding
\* that was a partial is the And expression of its operations, one operand for
\* each, and a binding that was no partial is unchanged.
C11_OutputBindings ==
    (last.call = "simplify_bindings") =>
        /\ last.ret.bound = {s \in last.arg.bound : ~is_temporary_var(s)}
        /\ \A s \in Symbols \ last.ret.bound : last.ret.val[s] = NoTerm
        /\ \A s \in last.ret.bound :
              /\ last.ret.val[s].value # "Partial"
              /\ IF last.arg.val[s].value = "Partial"
                 THEN /\ last.ret.val[s].value = "Expression"
                      /\ last.ret.val[s].op.operator = "And"
                      /\ Len(last.ret.val[s].op.args) =
                            Len(last.arg.val[s].constraints.operations)
                 ELSE last.ret.val[s] = last.arg.val[s]

\* the input bound a root to a partial with a lookup's Unify in it, another
\* variable to a value and two temporaries, one of them to a partial
C11_Witness ==
    /\ last.call = "simplify_bindings"
    /\ last.arg.val[Root].value = "Partial"
    /\ \E i \in 1..Len(last.arg.val[Root].constraints.operations) :
          last.arg.val[Root].constraints.operations[i].operator = "Unify"
    /\ last.arg.val["n"] = Number(1)
    /\ last.arg.val["_value_1"].value = "Partial"
    /\ "_value_2" \in last.arg.bound
    /\ last.ret.bound = {Root, "n"}

\* C12: simplify_bindings applied to a binding set it returned returns that
\* binding set.
C12_Idempotent ==
    [][(last.call = "simplify_bindings" /\ last'.call = "simplify_bindings")
          => (last'.arg = last.ret /\ last'.ret = last.ret)]_vars

\* the second call was made on what the first returned for a root partial and
\* bound temporaries
C12_Witness ==
    /\ last.call = "simplify_bindings"
    /\ last.arg = last.ret
    /\ Root \in last.ret.bound
    /\ last.ret.val[Root].value = "Expression"
    /\ last.ret.val[Root].op.operator = "And"
    /\ Len(last.ret.val[Root].op.args) = 2

\* C18 as stated: when map_ops substitutes R in the operations of a partial,
\* every operand Dot(_this, field) comes out as a Dot with the same field,
\* Dot(R, field) when R is a Dot, and only an operand that is the bare _this
\* comes out as R; for every R, a Dot or not.
C18_SubstitutionKeepsDot ==
    (last.call = "map_ops") =>
        \A i \in 1..Len(last.ops) : \A j \in 1..Len(last.ops[i].args) :
            LET term == last.ops[i].args[j]
                new == last.ret[i].op.args[j]
            IN /\ (IsDot(term) /\ term.op.args[1] = Variable("_this")) =>
                     /\ IsDot(new)
                     /\ new.op.args[2] = term.op.args[2]
                     /\ IsDot(last.replacement) =>
                            new.op.args[1] = last.replacement
               /\ (term = Variable("_this")) => new = last.replacement
               /\ (new = last.replacement) => term = Variable("_this")

-----------------------------------------------------------------------------
(* Properties of the fixed-point loop and of lookup chains *)

\* the nesting depth of the lookups recorded under s
RECURSIVE LookupDepth(_, _)
LookupDepth(b, s) ==
    LET children == {calls[b][s][i].value.sym :
                        i \in {j \in 1..Len(calls[b][s]) : calls[b][s][j].call = "lookup"}}
        depths == {LookupDepth(b, c) : c \in children}
    IN IF children = {} THEN 0
       ELSE 1 + CHOOSE d \in depths : \A e \in depths : e <= d

\* C13: for every root partial built from unify, compare, isa and chained
\* lookups the fixed-point loop reaches a pass that returns its input, and
\* the passes that changed the term before it are at most as many as the
\* lookups are nested deep.
C13_LoopTerminates ==
    (last.call = "simplify_bindings") =>
        \A s \in DOMAIN last.loop :
            /\ last.loop[s].fixed
            /\ last.loop[s].passes - 1 <= LookupDepth(last.branch, s)

\* a root over a chain of three lookups was simplified in three passes
C13_Witness ==
    /\ last.call = "simplify_bindings"
    /\ Root \in DOMAIN last.loop
    /\ LookupDepth(1, Root) = 3
    /\ last.loop[Root].passes = 3

\* the fields of the chain of lookups that starts at s, in lookup order
RECURSIVE ChainFields(_, _)
ChainFields(b, s) ==
    IF Len(calls[b][s]) = 1 /\ calls[b][s][1].call = "lookup"
    THEN <<calls[b][s][1].field>> \o ChainFields(b, calls[b][s][1].value.sym)
    ELSE <<>>

\* the last placeholder of the chain that starts at s
RECURSIVE ChainEnd(_, _)
ChainEnd(b, s) ==
    IF Len(calls[b][s]) = 1 /\ calls[b][s][1].call = "lookup"
    THEN ChainEnd(b, calls[b][s][1].value.sym)
    ELSE s

\* the root had a chain of k >= 1 lookups, nothing but one comparison was
\* recorded on the last placeholder, and the branch was simplified
IsChain(b) ==
    /\ out[b].done
    /\ Len(ChainFields(b, Root)) >= 1
    /\ Cardinality(Bound(b)) = Len(ChainFields(b, Root)) + 1
    /\ Len(calls[b][ChainEnd(b, Root)]) = 1
    /\ calls[b][ChainEnd(b, Root)][1].call = "compare"

\* Dot(...Dot(Dot(_this, f1), f2)..., fk)
RECURSIVE DotChain(_)
DotChain(fields) ==
    IF fields = <<>> THEN Variable("_this")
    ELSE Expression(Operation("Dot",
            <<DotChain(SubSeq(fields, 1, Len(fields) - 1)), fields[Len(fields)]>>))

\* the term inside the conjunctions of one operand that wrap it
RECURSIVE Unwrap(_)
Unwrap(term) ==
    IF term.value = "Expression" /\ term.op.operator = "And" /\ Len(term.op.args) = 1
    THEN Unwrap(term.op.args[1])
    ELSE term

\* C19 as stated: for a chain of k >= 1 lookups f1..fk whose last placeholder
\* carries a comparison, the simplified root is that comparison over
\* Dot(...Dot(Dot(_this, f1), f2)..., fk), every field once and in lookup
\* order (inside the one-operand conjunctions that wrap it).
C19_DeepChains ==
    \A b \in Branches :
        IsChain(b) =>
            LET cmp == calls[b][ChainEnd(b, Root)][1]
            IN Unwrap(out[b].bindings.val[Root]) =
                  Expression(Operation(cmp.operator,
                      <<DotChain(ChainFields(b, Root)), cmp.other>>))

-----------------------------------------------------------------------------
(* Properties of branching *)

\* the operations branch b recorded on s after the fork, from its call log
OwnOperations(b, s) ==
    [i \in 1..(Len(calls[b][s]) - Len(prefix[s])) |->
        AppendedBy(calls[b][s][Len(prefix[s]) + i])]

\* the log of a branch that did lookup(field, v) on the root and v = n
LookupUnified(b, field, n) ==
    /\ calls[b][Root] = <<[call |-> "lookup", field |-> String(field),
                           value |-> Variable("_value_1")]>>
    /\ calls[b]["_value_1"] = <<[call |-> "unify", other |-> Number(n)]>>
    /\ out[b].done

\* _this.field = n, inside the conjunctions of the rewrite and of into_expression
FieldUnified(field, n) ==
    Expression(Operation("And", <<Expression(Operation("And",
        <<Expression(Operation("Unify",
            <<Expression(Operation("Dot", <<Variable("_this"), String(field)>>)),
              Number(n)>>))>>))>>))

\* C10: after the accumulators are cloned at a branch point, under every
\* interleaving of the two branches' calls the operation list of each copy is
\* the common prefix followed by the operations of its own branch only; the
\* branches x.a = 3 and x.b = 4 simplify to _this.a = 3 and _this.b = 4, each
\* wrapped in the conjunctions of its own branch, with no temporary bound.
C10_BranchIndependence ==
    /\ forked =>
        \A b \in Branches : \A s \in Symbols :
            /\ Bound(b) = {x \in Symbols : x = Root \/ calls[b][x] # <<>>
                              \/ \E y \in Symbols : \E i \in 1..Len(calls[b][y]) :
                                    /\ calls[b][y][i].call = "lookup"
                                    /\ calls[b][y][i].value.sym = x}
            /\ Acc(b, s).operations = prefix[s] \o OwnOperations(b, s)
    /\ (LookupUnified(1, "a", 3) /\ LookupUnified(2, "b", 4)) =>
            /\ out[1].bindings.val[Root] = FieldUnified("a", 3)
            /\ out[2].bindings.val[Root] = FieldUnified("b", 4)
            /\ out[1].bindings.bound = {Root}
            /\ out[2].bindings.bound = {Root}

\* both branches share a prefix on the root and each recorded its own,
\* different, operation after the fork
C10_Witness ==
    /\ forked
    /\ prefix[Root] # <<>>
    /\ Len(Acc(1, Root).operations) > Len(prefix[Root])
    /\ Len(Acc(2, Root).operations) > Len(prefix[Root])
    /\ Acc(1, Root).operations # Acc(2, Root).operations

\* the branches x.a = 3 and x.b = 4 were both simplified
C10_Example == LookupUnified(1, "a", 3) /\ LookupUnified(2, "b", 4)

-----------------------------------------------------------------------------
(* Properties of the type-compatibility check *)

InstancePattern(term) == term.value = "Pattern" /\ term.pattern = "Instance"
InstanceIsa(o) == o.operator = "Isa" /\ InstancePattern(o.args[Len(o.args)])
InstanceTags(ops) == {ops[i].args[2].tag : i \in {j \in 1..Len(ops) : InstanceIsa(ops[j])}}

\* the step is a run() of the check in slot c
RunStep(c) ==
    /\ last'.call = "run"
    /\ last'.check = c
    /\ obs'[c].steps = obs[c].steps + 1
\* the step is an external_question_result() on the check in slot c
ResumeStep(c) == last'.call = "resume" /\ last'.check = c

\* C2: isa(t) appends Isa(_this, t) as the last operation and returns a check
\* whose existing list is the operation list before the call; what the check
\* still holds is always a prefix of that list, so neither the proposed Isa nor
\* any operation appended later is among the operations it examines.
C2_IsaSnapshot ==
    /\ last.call = "isa" =>
          LET ops == Acc(1, Root).operations
          IN /\ ops # <<>>
             /\ ops[Len(ops)].operator = "Isa"
             /\ ops[Len(ops)].args[1] = Variable("_this")
             /\ last.ret.existing = SubSeq(ops, 1, Len(ops) - 1)
    /\ \A c \in CheckIds : obs[c].live =>
          LET ops == Acc(1, Root).operations
              o == obs[c]
              existing == checks[c].existing
          IN /\ o.at <= Len(ops)
             /\ ops[o.at] = Operation("Isa", <<Variable("_this"), o.operand>>)
             /\ o.pre = SubSeq(ops, 1, o.at - 1)
             /\ Len(existing) < o.at
             /\ existing = SubSeq(ops, 1, Len(existing))
             /\ o.steps = 0 => existing = o.pre

\* a check not stepped yet holds two prior operations; two more were appended
\* to the accumulator after the isa call that returned it
C2_Witness ==
    /\ obs[1].live
    /\ obs[1].steps = 0
    /\ Len(checks[1].existing) = 2
    /\ Len(Acc(1, Root).operations) = obs[1].at + 1

\* C3: the first step of a check, taken on the check as isa returned it (no
\* answer was passed to it before any request), completes with true and emits
\* no request whenever the proposed operand is no instance pattern or no prior
\* operation, none at all included, is an Isa with an instance pattern.
C3_NoConflictPassThrough ==
    [][\A c \in CheckIds :
        (/\ RunStep(c)
         /\ obs[c].steps = 0
         /\ ProperRun(obs[c])
         /\ \/ ~InstancePattern(obs[c].operand)
            \/ \A i \in 1..Len(obs[c].pre) : ~InstanceIsa(obs[c].pre[i]))
        => /\ obs'[c].event = Done(TRUE)
           /\ obs'[c].requests = <<>>
           /\ counter' = counter
    ]_vars

\* a check for an instance pattern completed on its first step over prior
\* operations that include an Isa with a pattern that is no instance pattern
C3_Witness ==
    /\ obs[1].live
    /\ InstancePattern(obs[1].operand)
    /\ \E i \in 1..Len(obs[1].pre) : obs[1].pre[i].operator = "Isa"
    /\ obs[1].steps = 1
    /\ obs[1].event = Done(TRUE)
    /\ obs[1].requests = <<>>

\* C4: when the answer recorded for the outstanding request is negative, the
\* next step completes with false, consumes no prior operation and emits no
\* request, even when prior Isa operations remain unexamined.
C4_ShortCircuit ==
    [][\A c \in CheckIds :
        (/\ RunStep(c)
         /\ IsRequest(obs[c].event)
         /\ checks[c].result = Some(FALSE))
        => /\ obs'[c].event = Done(FALSE)
           /\ obs'[c].requests = obs[c].requests
           /\ checks'[c].existing = checks[c].existing
           /\ counter' = counter
    ]_vars

\* the check completed with false after one request while a prior Isa with an
\* instance pattern is still unexamined
C4_Witness ==
    /\ obs[1].live
    /\ obs[1].proper
    /\ obs[1].event = Done(FALSE)
    /\ Len(obs[1].requests) = 1
    /\ \E i \in 1..Len(checks[1].existing) : InstanceIsa(checks[1].existing[i])

\* C5: every request of a check with proposed tag P carries left_class_tag = P
\* and as right_class_tag the tag of a prior Isa with an instance pattern; when
\* every request is answered once before the next step, the check completes
\* with true iff every answer was positive and with false iff one was negative.
C5_VerdictFollowsAnswers ==
    \A c \in CheckIds : (obs[c].live /\ checks[c].proposed_tag.some) =>
        LET o == obs[c]
        IN /\ \A i \in 1..Len(o.requests) :
                /\ o.requests[i].left_class_tag = checks[c].proposed_tag.val
                /\ o.requests[i].left_class_tag = o.operand.tag
                /\ o.requests[i].right_class_tag \in InstanceTags(o.pre)
           /\ (o.proper /\ IsDone(o.event)) =>
                /\ Len(o.answers) = Len(o.requests)
                /\ o.event.result = TRUE <=> \A i \in 1..Len(o.answers) : o.answers[i]
                /\ o.event.result = FALSE <=> \E i \in 1..Len(o.answers) : ~o.answers[i]

\* a check for Post completed with true after two requests, the first about
\* User, both answered positively
C5_Witness ==
    /\ obs[1].live
    /\ obs[1].proper
    /\ obs[1].event = Done(TRUE)
    /\ obs[1].answers = <<TRUE, TRUE>>
    /\ Len(obs[1].requests) = 2
    /\ obs[1].requests[1].left_class_tag = "Post"
    /\ obs[1].requests[1].right_class_tag = "User"

\* C6: resume with a call id other than last_call_id returns the invalid-state
\* error and leaves the check unchanged; with the matching id it succeeds and
\* changes only the pending result, which becomes the answer.
C6_ResumeChecksCallId ==
    [][\A c \in CheckIds : ResumeStep(c) =>
        IF last'.call_id # checks[c].last_call_id
        THEN /\ last'.ret = "InvalidState"
             /\ checks'[c] = checks[c]
        ELSE /\ last'.ret = "Ok"
             /\ checks'[c].result = Some(last'.answer)
             /\ checks'[c].existing = checks[c].existing
             /\ checks'[c].proposed_tag = checks[c].proposed_tag
             /\ checks'[c].last_call_id = checks[c].last_call_id
    ]_vars

\* a resume with a stale id was refused while a request was outstanding and
\* its answer already recorded
C6_Witness ==
    /\ last.call = "resume"
    /\ last.ret = "InvalidState"
    /\ IsRequest(obs[1].event)
    /\ last.call_id # obs[1].event.call_id
    /\ checks[1].result = Some(TRUE)

RECURSIVE TagsFromBack(_)
TagsFromBack(ops) ==
    IF ops = <<>> THEN <<>>
    ELSE LET rest == TagsFromBack(SubSeq(ops, 1, Len(ops) - 1))
         IN IF InstanceIsa(ops[Len(ops)])
            THEN <<ops[Len(ops)].args[2].tag>> \o rest
            ELSE rest

\* C14: the requests of a check are about the prior Isa operations with an
\* instance pattern, most recently added first and every other operation
\* skipped, one request at most for a step and one at most for an operation:
\* the operations the check still holds are the ones it has not asked about,
\* and its requests are never more than the prior instance-pattern Isa
\* operations.
C14_RequestOrder ==
    \A c \in CheckIds : obs[c].live =>
        LET o == obs[c]
            due == TagsFromBack(o.pre)
            n == Len(o.requests)
        IN /\ n <= Len(due)
           /\ n <= o.steps
           /\ \A k \in 1..n : o.requests[k].right_class_tag = due[k]
           /\ TagsFromBack(checks[c].existing) = SubSeq(due, n + 1, Len(due))

\* a check asked about Post, then about User, and skipped the comparison
\* recorded between the two
C14_Witness ==
    /\ obs[1].live
    /\ Len(obs[1].pre) = 3
    /\ obs[1].pre[2].operator = "Gt"
    /\ Len(obs[1].requests) = 2
    /\ obs[1].requests[1].right_class_tag = "Post"
    /\ obs[1].requests[2].right_class_tag = "User"
    /\ obs[1].steps = 2

\* C15: when every request is answered and the check is then stepped again,
\* a check over k prior Isa operations with an instance pattern signals
\* completion in the end, after k requests and k + 1 steps at most.
C15_Completes ==
    /\ [](\A c \in CheckIds : obs[c].live =>
            LET k == Len(TagsFromBack(obs[c].pre))
            IN /\ Len(obs[c].requests) <= k
               /\ obs[c].steps <= k + 1
               /\ (obs[c].steps = k + 1) => IsDone(obs[c].event))
    /\ \A c \in CheckIds : obs[c].live ~> IsDone(obs[c].event)

\* a check over three prior Isa operations completed at its fourth step,
\* after three requests
C15_Witness ==
    /\ obs[1].live
    /\ Len(TagsFromBack(obs[1].pre)) = 3
    /\ Len(obs[1].requests) = 3
    /\ obs[1].steps = 4
    /\ obs[1].event = Done(TRUE)

-----------------------------------------------------------------------------
(* Properties of several checks at once *)

\* the call ids of the requests the driver has seen, of every check
SeenIds ==
    UNION {{obs[c].requests[k].call_id : k \in 1..Len(obs[c].requests)} : c \in CheckIds}

\* the checks in slots c and d both have a request outstanding, and the two
\* are different requests (a check and its clone share the request that was
\* outstanding when the branch forked)
OutstandingApart(c, d) ==
    /\ c # d
    /\ obs[c].live /\ IsRequest(obs[c].event)
    /\ obs[d].live /\ IsRequest(obs[d].event)
    /\ obs[c].event.call_id # obs[d].event.call_id

\* C16: with several checks live and one shared counter, under every
\* interleaving a request carries an id no request carried before, the
\* last_call_id of a check is the id of its most recent request, and a check
\* with a request outstanding rejects, with the invalid-state error and
\* unchanged, the answer that carries the id of another check's outstanding
\* request.
C16_SharedCounter ==
    [][\A c \in CheckIds :
        /\ (RunStep(c) /\ IsRequest(obs'[c].event)) =>
              /\ obs'[c].event.call_id \notin SeenIds
              /\ obs'[c].event.call_id = counter
              /\ counter' > counter
        /\ (obs'[c].live /\ obs'[c].requests # <<>>) =>
              Check(c)'.last_call_id = obs'[c].requests[Len(obs'[c].requests)].call_id
        /\ \A d \in CheckIds :
              (/\ ResumeStep(c)
               /\ OutstandingApart(c, d)
               /\ last'.call_id = obs[d].event.call_id)
              => /\ last'.ret = "InvalidState"
                 /\ Check(c)' = Check(c)
    ]_vars

\* two checks from two isa calls have requests 1 and 2 outstanding; the answer
\* to request 2 was routed to the first check, which rejected it
C16_Witness ==
    /\ OutstandingApart(1, 2)
    /\ obs[1].pre # obs[2].pre
    /\ last.call = "resume"
    /\ last.check = 1
    /\ last.call_id = obs[2].event.call_id
    /\ last.ret = "InvalidState"

\* C17: a step or a resume applied to a check leaves the check of the other
\* slot as it was (remaining prior operations, pending result, last_call_id),
\* also when one is the clone of the other and was cloned while a request was
\* outstanding.
C17_ClonesIndependent ==
    [][\A c \in CheckIds : \A d \in CheckIds \ {c} :
        (obs[d].live /\ (RunStep(c) \/ ResumeStep(c))) => Check(d)' = Check(d)
    ]_vars

\* the check was cloned while request 1 was outstanding; the answer went to
\* the original only, which was stepped and asked again, and the clone still
\* waits with its copy of the state at the fork
C17_Witness ==
    /\ obs[1].live /\ obs[2].live
    /\ obs[1].pre = obs[2].pre
    /\ Len(obs[2].requests) = 1
    /\ Len(obs[1].requests) = 2
    /\ Check(2).result = None
    /\ Check(2).last_call_id = 1
    /\ Check(1).last_call_id = 2
    /\ Len(Check(2).existing) > Len(Check(1).existing)

-----------------------------------------------------------------------------
(* Properties of resume outside the protocol *)

\* the check in slot c has a request outstanding that no answer was accepted for
Outstanding(c) == IsRequest(obs[c].event) /\ ~obs[c].answered

\* C22 as stated: resume is accepted only while the check has a request
\* outstanding and unanswered; before the first request, after an answer was
\* accepted for the request, and after completion it returns the
\* invalid-state error.
C22_ResumeOnlyWhenOutstanding ==
    [][\A c \in CheckIds :
        (ResumeStep(c) /\ ~Outstanding(c)) => last'.ret = "InvalidState"
    ]_vars

====
